---- MODULE Spec2Model ----
(***************************************************************************)
(* Model of actionshark/github.py: class GitHub, a client that walks the   *)
(* paginated GitHub Actions REST endpoints under a request-rate quota.     *)
(*                                                                         *)
(* Times are integer seconds.  The transport (requests.get), the sink      *)
(* (save_mongo) and the file output (save_JSON's open/json.dump) are the   *)
(* environment: a response is an input of the step that issues the         *)
(* request, and what was handed to the sink and to the file output is      *)
(* recorded in sink_log and file_log.  The session is constructed with a   *)
(* callable save_mongo, and its driver calls one public method, as         *)
(* __main__ does.  The loop of paginating is one step per iteration; pc    *)
(* is the position of the driver between the steps.                        *)
(*                                                                         *)
(* Spec is the session __main__ constructs, within the bounds below.       *)
(* SpecUrl is the URL building of the public methods for every page size.  *)
(* SpecLive is one paginating call against a server that lets it finish,   *)
(* with the loop's iterations weakly fair and no bound on their number.    *)
(***************************************************************************)
EXTENDS Integers, Sequences, FiniteSets, TLC

\* ---------------------------------------------------------------- bounds
\* the collection served by an endpoint has at most MaxPage non-empty pages
MaxPage == 2
\* at most MaxSuspend suspensions (limit_handler calls) in a session
MaxSuspend == 2
\* at most MaxRequests page requests in a session
MaxRequests == 4
\* at most MaxRuns run identifiers in a runs_object
MaxRuns == 1
\* at most MaxSlow page requests of a session take long
MaxSlow == 1

\* ------------------------------------------------------ program constants
\* seconds per day: timedelta.seconds is the remainder modulo one day
DaySeconds == 86400
\* dt.timedelta(hours=1)
HourSeconds == 3600
\* sleep_interval default of __init__
sleep_interval == 2
\* the error margin of update_limit_variables
Margin == 2
\* per_page default of __init__
DefaultPerPage == 100
\* owner_name and repo_name of __main__
Owner == "apache"
Repo == "commons-lang"
api_url == "https://api.github.com/"

\* ------------------------------------------------------------ environment
\* a missing run identifier (None)
NoRunId == 0
RunIds == 1..MaxRuns
\* the page sizes a session may be constructed with
PerPages == 1..DefaultPerPage
\* seconds a page request may take
Latency == {0, 3598}
\* the requests that count as slow
IsSlow(lat) == lat > 0
\* (limit, remaining, seconds until the reset) as the rate_limit endpoint
\* may report them
SrvQuotas == {<<60, 3, 5>>, <<5000, 5, 86405>>}

\* responses of GET rate_limit at time t
QuotaResponses(t) ==
    {[status |-> 200, limit |-> s[1], remaining |-> s[2], reset |-> t + s[3]] :
        s \in SrvQuotas}
    \cup {[status |-> 500, limit |-> 0, remaining |-> 0, reset |-> 0]}

\* responses of a page request: haskey says whether the JSON object holds the
\* envelope key, n is the number of records of the page
PageResponses ==
    {[status |-> 200, haskey |-> TRUE, n |-> 1],
     [status |-> 200, haskey |-> TRUE, n |-> 0],
     [status |-> 200, haskey |-> FALSE, n |-> 0],
     [status |-> 403, haskey |-> FALSE, n |-> 0],
     [status |-> 500, haskey |-> FALSE, n |-> 0]}

\* the objects get_all may be handed: None (given = FALSE) or an object with
\* an objects() method, its truth value and the run identifiers it yields
NoRunsObject == [given |-> FALSE, truthy |-> FALSE, ids |-> << >>]
RunsObjects ==
    {NoRunsObject}
    \cup {[given |-> TRUE, truthy |-> b, ids |-> s] :
            b \in BOOLEAN, s \in UNION {[1..k -> RunIds] : k \in 0..MaxRuns}}

VARIABLES
    pc,                    \* "idle", "paginating", "returned", "exit", "error"
    page,                  \* self.page
    current_action,        \* self.current_action
    total_requests,        \* self.total_requests
    limit_handler_counter, \* self.limit_handler_counter
    limit,                 \* self.limit
    remaining,             \* self.remaining
    reset_datetime,        \* self.reset_datetime
    last_stop_datetime,    \* self.last_stop_datetime
    force_to_sleep,        \* self.force_to_sleep
    verbose,               \* self.verbose
    per_page,              \* self.per_page
    github_url,            \* paginating's github_url
    checker,               \* paginating's checker
    top_call,              \* the public method the driver has called
    arg_run_id,            \* the run_id argument of the last get_* call
    stage,                 \* get_all's position
    run_idx,               \* get_all's position in runs_object.objects()
    runs_object,           \* get_all's argument, drawn where get_all reads it
    now,                   \* the clock
    slow,                  \* page requests that took long
    page_requests,         \* page requests issued in the session
    limit_requests,        \* rate_limit requests issued in the session
    sink_log,              \* save_mongo calls of the current paginating call
    sink_calls,            \* save_mongo calls of the session
    file_log,              \* files written by the current paginating call
    last_iter,             \* the last iteration of the current paginating call
    last_refresh,          \* the last update_limit_variables call
    page_tries,            \* requests made for the current page
    page_suspends,         \* limit_handler calls made for the current page
    call_log               \* paginating calls of the current public method

session == <<page, current_action, total_requests, limit_handler_counter,
             limit, remaining, reset_datetime, last_stop_datetime,
             force_to_sleep, verbose, per_page>>
control == <<pc, github_url, checker, top_call, arg_run_id, stage, run_idx,
             runs_object>>
history == <<page_requests, limit_requests, sink_log, sink_calls, file_log,
             last_iter, last_refresh, page_tries, page_suspends, call_log>>
vars == <<session, control, now, slow, history>>

\* before the first iteration of a paginating call
NoIteration ==
    [page |-> 0, url_pages |-> << >>, rem |-> 0, status |-> 0, content |-> -1,
     outcome |-> "none", tries |-> 0, suspends |-> 0, prev |-> 0]

\* no request made
NoResponse == [status |-> 0, limit |-> 0, remaining |-> 0, reset |-> 0]

\* the limit variables before the first get_limit
NoQuota == [limit |-> 0, remaining |-> 0, reset_datetime |-> 0]

\* what is recorded of one update_limit_variables call: its caller, the
\* time of its request, the response to it, the limit variables it leaves,
\* and the response to the get_limit(verbose=True) that limit_handler makes
\* after it
Refresh(by, at, resp, after, debug) ==
    [by |-> by, at |-> at, resp |-> resp, after |-> after, debug |-> debug]

\* ------------------------------------------------------------ rate limiter
\* get_limit: q is the stored (limit, remaining, reset_datetime)
get_limit(q, resp) ==
    IF resp.status = 200
    THEN [limit |-> resp.limit, remaining |-> resp.remaining,
          reset_datetime |-> resp.reset]
    ELSE q

\* update_limit_variables that moves the reset time the wrong way
update_limit_variables_early(q, resp) ==
    LET g == get_limit(q, resp)
    IN  [g EXCEPT !.remaining = @ - Margin, !.reset_datetime = @ - Margin]

update_limit_variables(q, resp) ==
    LET g == get_limit(q, resp)
    IN  [g EXCEPT !.remaining = @ - Margin, !.reset_datetime = @ + Margin]

\* (self.reset_datetime - self.last_stop_datetime).seconds
Seconds(delta) == delta % DaySeconds

Quota == [limit |-> limit, remaining |-> remaining,
          reset_datetime |-> reset_datetime]

\* limit_handler that records last_stop_datetime after the sleep
limit_handler_wake(q, t, r1, r2) ==
    LET fts == Seconds(q.reset_datetime - t)
        q1 == update_limit_variables(q, r1)
        q2 == IF verbose THEN get_limit(q1, r2) ELSE q1
    IN  [last_stop_datetime |-> t + fts, force_to_sleep |-> fts,
         wake |-> t + fts, quota |-> q2,
         requests |-> IF verbose THEN 2 ELSE 1,
         refresh |-> Refresh("limit_handler", t + fts, r1, q1,
                             IF verbose THEN r2 ELSE NoResponse)]

\* limit_handler called at time t; r1 answers update_limit_variables'
\* request, r2 the request of the verbose branch
limit_handler(q, t, r1, r2) ==
    LET stop == t
        fts == Seconds(q.reset_datetime - stop)
        q1 == update_limit_variables(q, r1)
        q2 == IF verbose THEN get_limit(q1, r2) ELSE q1
    IN  [last_stop_datetime |-> stop, force_to_sleep |-> fts,
         wake |-> t + fts, quota |-> q2,
         requests |-> IF verbose THEN 2 ELSE 1,
         refresh |-> Refresh("limit_handler", t + fts, r1, q1,
                             IF verbose THEN r2 ELSE NoResponse)]

\* ---------------------------------------------------------------- set-up
\* __init__ with per_page drawn from sizes
Construct(sizes) ==
    /\ now = 0
    /\ slow = 0
    /\ verbose \in BOOLEAN
    /\ per_page \in sizes
    /\ \E r \in QuotaResponses(0) :
          LET q == update_limit_variables(NoQuota, r)
          IN  /\ r.status = 200
              /\ limit = q.limit
              /\ remaining = q.remaining
              /\ reset_datetime = q.reset_datetime
              /\ last_refresh = Refresh("__init__", 0, r, q, NoResponse)
    /\ last_stop_datetime = 0
    /\ force_to_sleep = 0
    /\ page = 1
    /\ current_action = "none"
    /\ total_requests = 0
    /\ limit_handler_counter = 0
    /\ pc = "idle"
    /\ github_url = [action |-> "none", run_id |-> NoRunId, base |-> << >>,
                     pages |-> << >>]
    /\ checker = "none"
    /\ top_call = "none"
    /\ arg_run_id = NoRunId
    /\ stage = "none"
    /\ run_idx = 0
    /\ runs_object = NoRunsObject
    /\ page_requests = 0
    /\ limit_requests = 1
    /\ sink_log = << >>
    /\ sink_calls = 0
    /\ file_log = << >>
    /\ last_iter = NoIteration
    /\ page_tries = 0
    /\ page_suspends = 0
    /\ call_log = << >>

\* the session __main__ constructs
Init == Construct({DefaultPerPage})

\* -------------------------------------------------------------- paginating
\* AppendPage with the page number off by one
AppendPage_next(url, p) == [url EXCEPT !.pages = Append(@, p + 1)]

\* github_url += f'&page={self.page}'
AppendPage(url, p) == [url EXCEPT !.pages = Append(@, p)]

\* github_url[:-len(f'&page={self.page}')]: drops the parameter appended last
StripPage(url) == [url EXCEPT !.pages = SubSeq(@, 1, Len(@) - 1)]

\* the page a URL asks for: the server honours the last page parameter
ServedPage(url) == url.pages[Len(url.pages)]

\* response.json(), then .get(checker) when a checker is given: the number of
\* records, -1 for None
Extract(resp, chk) ==
    IF chk # "none" /\ ~resp.haskey THEN -1 ELSE resp.n

\* Truthy that tests for None only
Truthy_notNone(content) == content >= 0

\* Truthy with the test the wrong way round
Truthy_inverted(content) == content <= 0

\* truth value of the extracted content
Truthy(content) == content > 0

\* IsFatal tested after the quota test
IsFatal_afterQuota(resp) ==
    resp.status # 200 /\ resp.status # 403 /\ remaining > 1

\* status_code != 200 and status_code != 403
IsFatal(resp) == resp.status # 200 /\ resp.status # 403

\* ShouldSuspend without the test of remaining
ShouldSuspend_only403(resp, rem) == resp.status = 403

\* ShouldSuspend with remaining < 1
ShouldSuspend_below1(resp, rem) == resp.status = 403 \/ rem < 1

\* ShouldSuspend without the test of the status
ShouldSuspend_onlyQuota(resp, rem) == rem <= 1

\* status_code == 403 or self.remaining <= 1
ShouldSuspend(resp, rem) == resp.status = 403 \/ rem <= 1

\* HourPassed that wants more than an hour
HourPassed_strict(t, stop) == t - HourSeconds > stop

\* (self.get_dt_now() - dt.timedelta(hours=1)) >= self.last_stop_datetime
HourPassed(t, stop) == t - HourSeconds >= stop

\* the time a page request takes
Elapse(lat) ==
    /\ IsSlow(lat) => slow < MaxSlow
    /\ slow' = IF IsSlow(lat) THEN slow + 1 ELSE slow

\* what one iteration records about itself: the cursor, the page parameters
\* of the URL requested, the stored remaining at the request, the status and
\* the extracted content of the response, how the iteration ended, the
\* requests and suspensions made for this page so far, and the status of the
\* previous response for this page
Iteration(url, resp, outcome) ==
    [page |-> page, url_pages |-> url.pages, rem |-> remaining,
     status |-> resp.status,
     content |-> IF resp.status = 200 THEN Extract(resp, checker) ELSE -1,
     outcome |-> outcome, tries |-> page_tries + 1,
     suspends |-> page_suspends + (IF outcome = "suspend" THEN 1 ELSE 0),
     prev |-> IF page_tries > 0 THEN last_iter.status ELSE 0]

\* an iteration that ends in sys.exit(1)
IterFatal ==
    /\ pc = "paginating"
    /\ \E resp \in PageResponses, lat \in Latency :
        LET url == AppendPage(github_url, page)
        IN  /\ IsFatal(resp)
            /\ Elapse(lat)
            /\ github_url' = url
            /\ now' = now + lat
            /\ page_requests' = page_requests + 1
            /\ last_iter' = Iteration(url, resp, "fatal")
            /\ page_tries' = page_tries + 1
            /\ pc' = "exit"
    /\ UNCHANGED <<session, checker, top_call, arg_run_id, stage, run_idx,
                   runs_object, limit_requests, sink_log, sink_calls,
                   file_log, last_refresh, page_suspends, call_log>>

\* an iteration that ends in limit_handler() and continue
IterSuspend ==
    /\ pc = "paginating"
    /\ \E resp \in PageResponses, lat \in Latency :
        LET url == AppendPage(github_url, page)
            t == now + lat
        IN  /\ ~IsFatal(resp)
            /\ ShouldSuspend(resp, remaining)
            /\ Elapse(lat)
            /\ \E r1 \in QuotaResponses(t + Seconds(reset_datetime - t)) :
               \E r2 \in QuotaResponses(t + Seconds(reset_datetime - t)) :
                LET h == limit_handler(Quota, t, r1, r2)
                IN  /\ verbose \/ r2 = r1
                    /\ last_stop_datetime' = h.last_stop_datetime
                    /\ force_to_sleep' = h.force_to_sleep
                    /\ limit_handler_counter' = limit_handler_counter + 1
                    /\ now' = h.wake
                    /\ limit' = h.quota.limit
                    /\ remaining' = h.quota.remaining
                    /\ reset_datetime' = h.quota.reset_datetime
                    /\ limit_requests' = limit_requests + h.requests
                    /\ last_refresh' = h.refresh
            /\ last_iter' = Iteration(url, resp, "suspend")
            /\ github_url' = url
            /\ page_requests' = page_requests + 1
            /\ page_tries' = page_tries + 1
            /\ page_suspends' = page_suspends + 1
    /\ UNCHANGED <<page, current_action, total_requests, verbose, per_page,
                   pc, checker, top_call, arg_run_id, stage, run_idx,
                   runs_object, sink_log, sink_calls, file_log, call_log>>

\* an iteration that ends in break
IterEmpty ==
    /\ pc = "paginating"
    /\ \E resp \in PageResponses, lat \in Latency :
        LET url == AppendPage(github_url, page)
        IN  /\ ~IsFatal(resp)
            /\ ~ShouldSuspend(resp, remaining)
            /\ ~Truthy(Extract(resp, checker))
            /\ Elapse(lat)
            /\ github_url' = url
            /\ now' = now + lat
            /\ page_requests' = page_requests + 1
            /\ last_iter' = Iteration(url, resp, "empty")
            /\ page_tries' = page_tries + 1
            /\ pc' = IF stage = "none" THEN "idle" ELSE "returned"
    /\ UNCHANGED <<session, checker, top_call, arg_run_id, stage, run_idx,
                   runs_object, limit_requests, sink_log, sink_calls,
                   file_log, last_refresh, page_suspends, call_log>>

\* self.remaining -= 1 that is left out
AfterRequest_free(q) == q

\* self.remaining -= 1
AfterRequest(q) == [q EXCEPT !.remaining = @ - 1]

\* an iteration that hands the page on and goes round the loop again
IterConsume ==
    /\ pc = "paginating"
    /\ \E resp \in PageResponses, lat \in Latency :
        LET url == AppendPage(github_url, page)
            t == now + lat + sleep_interval
        IN  /\ ~IsFatal(resp)
            /\ ~ShouldSuspend(resp, remaining)
            /\ Truthy(Extract(resp, checker))
            /\ Elapse(lat)
            /\ sink_log' = Append(sink_log,
                   [action |-> current_action, content |-> ServedPage(url)])
            /\ sink_calls' = sink_calls + 1
            /\ file_log' = Append(file_log,
                   [name_page |-> page, content |-> ServedPage(url)])
            /\ github_url' = StripPage(url)
            /\ page' = page + 1
            /\ now' = t
            /\ total_requests' = total_requests + 1
            /\ page_requests' = page_requests + 1
            /\ IF HourPassed(t, last_stop_datetime)
               THEN \E r \in QuotaResponses(t) :
                     LET q == update_limit_variables(AfterRequest(Quota), r)
                     IN  /\ limit' = q.limit
                         /\ remaining' = q.remaining
                         /\ reset_datetime' = q.reset_datetime
                         /\ limit_requests' = limit_requests + 1
                         /\ last_refresh' =
                                Refresh("paginating", t, r, q, NoResponse)
               ELSE /\ remaining' = AfterRequest(Quota).remaining
                    /\ UNCHANGED <<limit, reset_datetime, limit_requests,
                                   last_refresh>>
            /\ last_iter' = Iteration(url, resp, "consume")
            /\ page_tries' = 0
            /\ page_suspends' = 0
    /\ UNCHANGED <<current_action, limit_handler_counter, last_stop_datetime,
                   force_to_sleep, verbose, per_page, pc, checker, top_call,
                   arg_run_id, stage, run_idx, runs_object, call_log>>

\* the iterations within the bounds of the model
PageFatal == page_requests < MaxRequests /\ IterFatal

PageSuspend ==
    /\ page_requests < MaxRequests
    /\ limit_handler_counter < MaxSuspend
    /\ IterSuspend

PageEmpty == page_requests < MaxRequests /\ IterEmpty

PageConsume ==
    /\ page_requests < MaxRequests
    /\ page <= MaxPage
    /\ IterConsume

\* -------------------------------------------------------------- dispatcher
\* the envelope key each public method passes as checker
CheckerOf(action) ==
    CASE action = "repos" -> "none"
      [] action = "workflows" -> "workflows"
      [] action = "runs" -> "workflow_runs"
      [] action = "jobs" -> "jobs"
      [] action = "artifacts" -> "artifacts"

\* the URL templates as sequences of tokens: a replacement field, and each
\* of ? & = of the query string, is a token of its own
actions_url(action) ==
    CASE action = "repos" ->
           <<"orgs/", "{org}", "/repos", "?", "per_page", "=", "{per_page}">>
      [] action = "workflows" ->
           <<"repos/", "{owner}", "/", "{repo}", "/actions/workflows", "?",
             "per_page", "=", "{per_page}">>
      [] action = "runs" ->
           <<"repos/", "{owner}", "/", "{repo}", "/actions/runs", "?",
             "per_page", "{per_page}">>
      [] action = "jobs" ->
           <<"repos/", "{owner}", "/", "{repo}", "/actions/runs/", "{run_id}",
             "/jobs", "?", "per_page", "{per_page}">>
      [] action = "artifacts" ->
           <<"repos/", "{owner}", "/", "{repo}", "/actions/runs/", "{run_id}",
             "/artifacts", "?", "per_page", "{per_page}">>

\* str.format: fields maps the replacement fields to their values
format(template, fields) ==
    [i \in 1..Len(template) |->
        IF template[i] \in DOMAIN fields
        THEN fields[template[i]]
        ELSE template[i]]

\* str() of a bool
str(b) == IF b THEN "True" ELSE "False"

\* the github_url a public method hands to paginating; exclude is get_runs'
\* exclude_pull_requests
UrlOf(action, run_id, exclude) ==
    LET fields == ("{org}" :> Owner) @@ ("{owner}" :> Owner)
                  @@ ("{repo}" :> Repo) @@ ("{run_id}" :> ToString(run_id))
                  @@ ("{per_page}" :> ToString(per_page))
        url == format(actions_url(action), fields)
    IN  <<api_url>> \o url
        \o (IF action = "runs"
            THEN <<"&", "exclude_pull_requests", "=", str(exclude)>>
            ELSE << >>)

\* the common part of get_owner_repostries .. get_artifacts: set the action,
\* reset the cursor, build the URL and enter paginating; log is the list of
\* paginating calls the running public method has made so far
Begin(action, run_id, exclude, log) ==
    /\ current_action' = action
    /\ page' = 1
    /\ github_url' = [action |-> action, run_id |-> run_id,
                      base |-> UrlOf(action, run_id, exclude),
                      pages |-> << >>]
    /\ arg_run_id' = run_id
    /\ checker' = CheckerOf(action)
    /\ pc' = "paginating"
    /\ sink_log' = << >>
    /\ file_log' = << >>
    /\ last_iter' = NoIteration
    /\ page_tries' = 0
    /\ page_suspends' = 0
    /\ call_log' = Append(log, [action |-> action, run_id |-> run_id])

\* what Begin leaves alone
BeginFrame ==
    UNCHANGED <<total_requests, limit_handler_counter, limit, remaining,
                reset_datetime, last_stop_datetime, force_to_sleep, verbose,
                per_page, now, slow, page_requests, limit_requests,
                sink_calls, last_refresh>>

\* BeginForRun that tests run_id after it has set the action and the cursor
BeginForRun_late(action, run_id, log) ==
    IF run_id = NoRunId
    THEN /\ current_action' = action
         /\ page' = 1
         /\ pc' = "exit"
         /\ call_log' = log
         /\ arg_run_id' = run_id
         /\ UNCHANGED <<github_url, checker, sink_log, file_log, last_iter,
                        page_tries, page_suspends>>
    ELSE Begin(action, run_id, FALSE, log)

\* get_jobs and get_artifacts: sys.exit(1) when run_id is missing
BeginForRun(action, run_id, log) ==
    IF run_id = NoRunId
    THEN /\ pc' = "exit"
         /\ call_log' = log
         /\ arg_run_id' = run_id
         /\ UNCHANGED <<current_action, page, github_url, checker, sink_log,
                        file_log, last_iter, page_tries, page_suspends>>
    ELSE Begin(action, run_id, FALSE, log)

get_owner_repostries ==
    /\ pc = "idle"
    /\ top_call = "none"
    /\ Begin("repos", NoRunId, FALSE, << >>)
    /\ top_call' = "get_owner_repostries"
    /\ BeginFrame
    /\ UNCHANGED <<stage, run_idx, runs_object>>

get_workflows ==
    /\ pc = "idle"
    /\ top_call = "none"
    /\ Begin("workflows", NoRunId, FALSE, << >>)
    /\ top_call' = "get_workflows"
    /\ BeginFrame
    /\ UNCHANGED <<stage, run_idx, runs_object>>

get_runs ==
    /\ pc = "idle"
    /\ top_call = "none"
    /\ \E exclude_pull_requests \in BOOLEAN :
          Begin("runs", NoRunId, exclude_pull_requests, << >>)
    /\ top_call' = "get_runs"
    /\ BeginFrame
    /\ UNCHANGED <<stage, run_idx, runs_object>>

get_jobs ==
    /\ pc = "idle"
    /\ top_call = "none"
    /\ \E run_id \in RunIds \cup {NoRunId} :
          BeginForRun("jobs", run_id, << >>)
    /\ top_call' = "get_jobs"
    /\ BeginFrame
    /\ UNCHANGED <<stage, run_idx, runs_object>>

get_artifacts ==
    /\ pc = "idle"
    /\ top_call = "none"
    /\ \E run_id \in RunIds \cup {NoRunId} :
          BeginForRun("artifacts", run_id, << >>)
    /\ top_call' = "get_artifacts"
    /\ BeginFrame
    /\ UNCHANGED <<stage, run_idx, runs_object>>

\* get_all up to the first request of get_owner_repostries
get_all ==
    /\ pc = "idle"
    /\ top_call = "none"
    /\ UNCHANGED runs_object
    /\ Begin("repos", NoRunId, FALSE, << >>)
    /\ top_call' = "get_all"
    /\ stage' = "repos"
    /\ run_idx' = 0
    /\ BeginFrame

\* get_all returns
AllReturn ==
    /\ pc' = "idle"
    /\ stage' = "none"
    /\ UNCHANGED <<current_action, page, github_url, checker, arg_run_id,
                   sink_log, file_log, last_iter, page_tries, page_suspends,
                   call_log, run_idx>>

\* get_all after get_runs has returned: the test of runs_object and the
\* first get_jobs call
AfterRuns(ro) ==
    IF ~(~ro.given \/ ~ro.truthy)
    THEN AllReturn
    ELSE IF ~ro.given
    THEN \* None has no objects()
         /\ pc' = "error"
         /\ UNCHANGED <<current_action, page, github_url, checker,
                        arg_run_id, sink_log, file_log, last_iter, page_tries,
                        page_suspends, call_log, stage, run_idx>>
    ELSE IF ro.ids = << >>
    THEN AllReturn
    ELSE /\ BeginForRun("jobs", ro.ids[1], call_log)
         /\ stage' = "jobs"
         /\ run_idx' = 1

\* get_all from the return of one paginating call to the first request of
\* the next one
get_all_next ==
    /\ pc = "returned"
    /\ CASE stage = "repos" ->
              /\ Begin("workflows", NoRunId, FALSE, call_log)
              /\ stage' = "workflows"
              /\ UNCHANGED <<run_idx, runs_object>>
         [] stage = "workflows" ->
              /\ Begin("runs", NoRunId, FALSE, call_log)
              /\ stage' = "runs"
              /\ UNCHANGED <<run_idx, runs_object>>
         [] stage = "runs" ->
              \E ro \in RunsObjects :
                  /\ runs_object' = ro
                  /\ AfterRuns(ro)
         [] stage = "jobs" ->
              /\ IF run_idx < Len(runs_object.ids)
                 THEN /\ BeginForRun("jobs", runs_object.ids[run_idx + 1],
                                     call_log)
                      /\ run_idx' = run_idx + 1
                      /\ UNCHANGED stage
                 ELSE /\ BeginForRun("artifacts", runs_object.ids[1],
                                     call_log)
                      /\ stage' = "artifacts"
                      /\ run_idx' = 1
              /\ UNCHANGED runs_object
         [] stage = "artifacts" ->
              /\ IF run_idx < Len(runs_object.ids)
                 THEN /\ BeginForRun("artifacts",
                                     runs_object.ids[run_idx + 1], call_log)
                      /\ run_idx' = run_idx + 1
                      /\ UNCHANGED stage
                 ELSE AllReturn
              /\ UNCHANGED runs_object
    /\ UNCHANGED top_call
    /\ BeginFrame

Next ==
    \/ get_owner_repostries
    \/ get_workflows
    \/ get_runs
    \/ get_jobs
    \/ get_artifacts
    \/ get_all
    \/ get_all_next
    \/ PageFatal
    \/ PageSuspend
    \/ PageEmpty
    \/ PageConsume

Spec == Init /\ [][Next]_vars

\* the URL building alone: a session of any page size calls one of the
\* public methods that build a URL
InitUrl == Construct(PerPages)

NextUrl ==
    \/ get_owner_repostries
    \/ get_workflows
    \/ get_runs
    \/ get_jobs
    \/ get_artifacts

SpecUrl == InitUrl /\ [][NextUrl]_vars

\* one paginating call against a server that lets it finish.  The collection
\* of every endpoint has CollectionPages non-empty pages and an empty one
\* after them
CollectionPages == MaxPage

\* the server in the iteration just made: a page request is answered 200 or
\* 403, and 403 only to the first request for a page; a 200 answer holds
\* records exactly for the pages of the collection; every rate_limit request
\* is answered 200; and the refresh after a suspension leaves a stored
\* remaining above 1
Cooperative ==
    /\ last_iter'.status \in {200, 403}
    /\ last_iter'.status = 403 => last_iter'.tries = 1
    /\ last_iter'.status = 200 =>
          (last_iter'.content > 0 <=>
             last_iter'.url_pages[Len(last_iter'.url_pages)]
                 <= CollectionPages)
    /\ limit_requests' # limit_requests =>
          (/\ last_refresh'.resp.status = 200
           /\ last_refresh'.debug.status \in {0, 200})
    /\ limit_handler_counter' # limit_handler_counter => remaining' > 1

LiveSuspend == IterSuspend /\ Cooperative

LiveEmpty == IterEmpty /\ Cooperative

LiveConsume == IterConsume /\ Cooperative

LiveIteration == LiveSuspend \/ LiveEmpty \/ LiveConsume

LiveNext ==
    \/ get_owner_repostries
    \/ get_workflows
    \/ get_runs
    \/ get_jobs
    \/ get_artifacts
    \/ LiveSuspend
    \/ LiveEmpty
    \/ LiveConsume

\* the loop of paginating goes on as long as it can: the process is not
\* stopped from outside
SpecLive == Init /\ [][LiveNext]_vars /\ WF_vars(LiveIteration)

\* ----------------------------------------------------------------- claims
\* a step that is one iteration of paginating's loop
IterationStep == page_requests' = page_requests + 1

\* a step that calls update_limit_variables
RefreshStep == limit_requests' # limit_requests

\* C1: within one paginating call the sink and the file output have received
\* exactly the pages 1 .. page-1, in this order and each once, each page
\* tagged with the current action and written under its own page number.
C1_PagesInOrder ==
    /\ Len(sink_log) = page - 1
    /\ Len(file_log) = page - 1
    /\ \A i \in 1..Len(sink_log) :
          /\ sink_log[i] = [action |-> current_action, content |-> i]
          /\ file_log[i] = [name_page |-> i, content |-> i]

\* two pages handed on in a call that was suspended
C1_Witness ==
    /\ pc = "paginating"
    /\ Len(sink_log) = 2
    /\ Len(file_log) = 2
    /\ limit_handler_counter > 0

\* C2: an iteration whose response is 403 or that finds remaining <= 1 leaves
\* the cursor unchanged, the iteration after a suspension asks for the same
\* page, and the cursor moves only by one and only in an iteration that
\* received 200 with non-empty content for the page of the cursor.
C2_CursorMoves ==
    [][IterationStep =>
        /\ (last_iter'.status = 403 \/ remaining <= 1) => page' = page
        /\ last_iter'.outcome = "suspend" => page' = page
        /\ last_iter.outcome = "suspend" => last_iter'.page = last_iter.page
        /\ page' # page =>
              /\ page' = page + 1
              /\ last_iter'.page = page
              /\ last_iter'.status = 200
              /\ last_iter'.content > 0]_vars

\* the cursor has moved to page 2 after page 1 was asked for twice
C2_Witness ==
    /\ page = 2
    /\ last_iter.outcome = "consume"
    /\ last_iter.page = 1
    /\ last_iter.tries = 2
    /\ last_iter.suspends = 1

\* C3: every page request has exactly one page parameter, the cursor.
C3_OnePageParameter ==
    last_iter.outcome # "none" => last_iter.url_pages = << last_iter.page >>

\* max(0, x)
Max0(x) == IF x > 0 THEN x ELSE 0

\* C4: limit_handler sleeps max(0, reset_datetime - now) seconds.
C4_SleepUntilReset ==
    [][limit_handler_counter' = limit_handler_counter + 1 =>
        /\ force_to_sleep' = Max0(reset_datetime - last_stop_datetime')
        /\ now' = last_stop_datetime' + force_to_sleep']_vars

\* C5: no page request is issued while the stored remaining is <= 1.
C5_NoRequestWhenExhausted ==
    [][IterationStep => remaining > 1]_vars

\* C5 as amended: the request is issued whatever the stored remaining is, and
\* a 200 or 403 response received while the stored remaining is <= 1 is not
\* used: the iteration calls limit_handler, hands nothing on, leaves the
\* cursor alone and stays in the loop.
C5_NoUseWhenExhausted ==
    [][IterationStep /\ remaining <= 1 /\ last_iter'.status \in {200, 403} =>
        /\ last_iter'.outcome = "suspend"
        /\ limit_handler_counter' = limit_handler_counter + 1
        /\ sink_log' = sink_log
        /\ file_log' = file_log
        /\ page' = page
        /\ total_requests' = total_requests
        /\ pc' = "paginating"]_vars

\* a 200 response was dropped because the stored remaining was <= 1
C5_Witness ==
    /\ last_iter.outcome = "suspend"
    /\ last_iter.status = 200
    /\ last_iter.rem <= 1

\* the limit variables as the running update_limit_variables call found them
QuotaBefore ==
    IF last_refresh'.by = "paginating"
    THEN [Quota EXCEPT !.remaining = @ - 1]
    ELSE Quota

\* C6: a refresh whose request is answered by a status other than 200 leaves
\* limit, remaining and reset_datetime as they were.
C6_FailedRefreshKeepsQuota ==
    [][RefreshStep /\ last_refresh'.resp.status # 200 =>
        last_refresh'.after = QuotaBefore]_vars

\* the paginating calls get_all is to make for the run identifiers ids
ExpectedCalls(ids) ==
    << [action |-> "repos", run_id |-> NoRunId],
       [action |-> "workflows", run_id |-> NoRunId],
       [action |-> "runs", run_id |-> NoRunId] >>
    \o [i \in 1..Len(ids) |-> [action |-> "jobs", run_id |-> ids[i]]]
    \o [i \in 1..Len(ids) |-> [action |-> "artifacts", run_id |-> ids[i]]]

\* get_all has returned
AllReturned == top_call = "get_all" /\ pc = "idle"

\* C7: get_all, given a non-empty collection of runs, has paginated
\* repositories, workflows, runs, the jobs of every run and the artifacts of
\* every run, in this order, when it returns.
C7_AllActionsInOrder ==
    (AllReturned /\ runs_object.given /\ runs_object.truthy
        /\ runs_object.ids # << >>)
    => call_log = ExpectedCalls(runs_object.ids)

\* C8: get_all without a runs_object paginates repositories, workflows and
\* runs and returns, with no jobs or artifacts request and no error.
C8_NoRunsObjectReturns ==
    (top_call = "get_all" /\ ~runs_object.given) =>
        /\ pc # "error"
        /\ \A i \in 1..Len(call_log) :
              call_log[i].action \notin {"jobs", "artifacts"}
        /\ AllReturned => call_log = ExpectedCalls(<< >>)

\* C9: an iteration that receives 200 while remaining > 1 and extracts empty
\* or absent content ends the loop without sys.exit, hands nothing to the
\* sink or the file output, and changes neither the cursor nor the counters.
C9_EmptyPageEndsLoop ==
    [][(IterationStep /\ last_iter'.status = 200 /\ remaining > 1
            /\ last_iter'.content <= 0) =>
        /\ last_iter'.outcome = "empty"
        /\ pc' \in {"idle", "returned"}
        /\ sink_log' = sink_log
        /\ file_log' = file_log
        /\ page' = page
        /\ total_requests' = total_requests
        /\ limit_handler_counter' = limit_handler_counter
        /\ remaining' = remaining]_vars

\* the loop ended on a page without the envelope key, after one page
C9_Witness ==
    /\ last_iter.outcome = "empty"
    /\ last_iter.content = -1
    /\ last_iter.page = 2
    /\ Len(sink_log) = 1
    /\ pc \in {"idle", "returned"}

\* C10: a 403 response ends its iteration in limit_handler whatever the
\* stored remaining is; when limit_handler, called for the first 403 of a
\* page, returns with remaining > 1 and the next response is 200, that
\* iteration does not suspend: limit_handler has run once and the page has
\* been requested twice.
C10_OneCycleAfter403 ==
    [][IterationStep =>
        /\ last_iter'.status = 403 =>
              /\ last_iter'.outcome = "suspend"
              /\ limit_handler_counter' = limit_handler_counter + 1
        /\ (last_iter.outcome = "suspend" /\ last_iter.status = 403
                /\ last_iter.tries = 1 /\ remaining > 1
                /\ last_iter'.status = 200) =>
              /\ last_iter'.outcome \in {"consume", "empty"}
              /\ last_iter'.page = last_iter.page
              /\ last_iter'.tries = 2
              /\ last_iter'.suspends = 1
              /\ limit_handler_counter' = limit_handler_counter]_vars

\* a page answered by 403 and then, limit_handler having left remaining > 1,
\* by 200, and handed on
C10_Witness ==
    /\ last_iter.outcome = "consume"
    /\ last_iter.prev = 403
    /\ last_iter.tries = 2
    /\ last_iter.suspends = 1
    /\ limit_handler_counter = 1

\* C11: an iteration whose response has a status other than 200 and 403
\* ends the run in that iteration: it is not retried and not suspended, also
\* when the stored remaining is 1 or less, nothing is handed to the sink or
\* written to a file, and no request is made after it
C11_OtherStatusIsFatal ==
    [][/\ (IterationStep /\ last_iter'.status \notin {200, 403}) =>
            (/\ pc' = "exit"
             /\ last_iter'.outcome = "fatal"
             /\ limit_handler_counter' = limit_handler_counter
             /\ limit_requests' = limit_requests
             /\ sink_log' = sink_log
             /\ file_log' = file_log
             /\ UNCHANGED <<page, total_requests, Quota, last_stop_datetime>>)
       /\ (pc = "exit") =>
            UNCHANGED <<pc, page_requests, limit_requests, sink_log, file_log>>
      ]_vars

\* a status 500 answered a request made with the quota used up
C11_Witness ==
    /\ pc = "exit"
    /\ last_iter.outcome = "fatal"
    /\ last_iter.status = 500
    /\ last_iter.rem <= 1
    /\ limit_handler_counter = 0

\* C12: get_jobs and get_artifacts called without a run identifier end the
\* run before any request is made and with current_action and the cursor as
\* they were
C12_MissingRunIdIsFatal ==
    [][(/\ top_call = "none"
        /\ top_call' \in {"get_jobs", "get_artifacts"}
        /\ arg_run_id' = NoRunId) =>
            (/\ pc' = "exit"
             /\ page_requests' = 0
             /\ UNCHANGED <<current_action, page, github_url, page_requests,
                            limit_requests, total_requests, call_log>>)
      ]_vars

\* get_artifacts was called without a run identifier
C12_Witness ==
    /\ top_call = "get_artifacts"
    /\ arg_run_id = NoRunId
    /\ pc = "exit"
    /\ page_requests = 0
    /\ current_action = "none"
    /\ page = 1

\* the query string of url holds the parameter name=value
HasParam(url, name, value) ==
    \E i \in 2..(Len(url) - 2) :
        /\ url[i - 1] \in {"?", "&"}
        /\ url[i] = name
        /\ url[i + 1] = "="
        /\ url[i + 2] = value
        /\ i + 2 < Len(url) => url[i + 3] = "&"

\* value is one of the tokens of url
HasToken(url, value) == \E i \in 1..Len(url) : url[i] = value

\* C14: the URL every public method hands to paginating holds the query
\* parameter per_page=<self.per_page>, for every action and page size, and
\* the owner, the repository and the run identifier in place of their
\* replacement fields
C14_PerPageParameter ==
    pc = "paginating" =>
        /\ HasParam(github_url.base, "per_page", ToString(per_page))
        /\ \A f \in {"{org}", "{owner}", "{repo}", "{run_id}", "{per_page}"} :
              ~HasToken(github_url.base, f)
        /\ HasToken(github_url.base, Owner)
        /\ current_action # "repos" => HasToken(github_url.base, Repo)
        /\ current_action \in {"jobs", "artifacts"} =>
              HasToken(github_url.base, ToString(arg_run_id))

\* what the claims expect update_limit_variables to leave after the response
\* resp
Expected(resp) ==
    [limit |-> resp.limit, remaining |-> resp.remaining - 2,
     reset_datetime |-> resp.reset + 2]

\* C15: when the rate_limit request is answered 200, update_limit_variables
\* returns with limit the server's limit, remaining the server's remaining
\* minus 2 and reset_datetime the server's reset time plus 2 seconds; this
\* holds for the call in __init__ and for every later call, and these are the
\* stored values when the step ends with that call
C15_RefreshOn200 ==
    /\ [](last_refresh.resp.status = 200 =>
            last_refresh.after = Expected(last_refresh.resp))
    /\ [][(RefreshStep /\ last_refresh'.resp.status = 200
                       /\ last_refresh'.debug = NoResponse) =>
              Quota' = Expected(last_refresh'.resp)]_vars

\* update_limit_variables, called after a consumed page, got 200
C15_Witness ==
    /\ last_refresh.by = "paginating"
    /\ last_refresh.resp.status = 200
    /\ last_iter.outcome = "consume"
    /\ remaining = last_refresh.resp.remaining - 2
    /\ reset_datetime = last_refresh.resp.reset + 2
    /\ limit = last_refresh.resp.limit

\* a step in which limit_handler runs
SuspendStep == limit_handler_counter' # limit_handler_counter

\* C16: when limit_handler returns after a rate_limit request answered 200,
\* the stored remaining is the server's remaining minus 2 and the stored
\* reset_datetime the server's reset time plus 2 seconds, whatever verbose
\* is, and limit_handler has made exactly one rate_limit request
C16_MarginAfterSuspension ==
    [][(SuspendStep /\ last_refresh'.resp.status = 200) =>
          (/\ remaining' = last_refresh'.resp.remaining - 2
           /\ reset_datetime' = last_refresh'.resp.reset + 2
           /\ limit_requests' = limit_requests + 1)]_vars

\* C17: one call of limit_handler records as last_stop_datetime the time at
\* which the suspension begins, adds exactly 1 to limit_handler_counter,
\* sleeps force_to_sleep seconds and refreshes the limit variables after the
\* sleep; the cursor, current_action and total_requests stay as they were
C17_LimitHandlerOrder ==
    [][SuspendStep =>
          (/\ limit_handler_counter' = limit_handler_counter + 1
           /\ last_stop_datetime' >= now
           /\ last_stop_datetime' = now' - force_to_sleep'
           /\ last_refresh'.by = "limit_handler"
           /\ last_refresh'.at = last_stop_datetime' + force_to_sleep'
           /\ limit_requests' > limit_requests
           /\ UNCHANGED <<page, current_action, total_requests>>)]_vars

\* limit_handler has slept and refreshed after one page was consumed
C17_Witness ==
    /\ last_iter.outcome = "suspend"
    /\ limit_handler_counter = 1
    /\ force_to_sleep > 0
    /\ last_stop_datetime = now - force_to_sleep
    /\ last_refresh.at = now
    /\ total_requests = 1
    /\ page = 2

\* C18: an iteration that hands a page to the sink adds exactly 1 to
\* total_requests and takes exactly 1 from the stored remaining (seen in the
\* stored value when no refresh follows in the iteration, and in what a failed
\* refresh leaves when one follows); an iteration that ends in a suspension
\* or in the empty page leaves total_requests alone and takes nothing from
\* remaining but what the refresh of the suspension does; over all the
\* paginating calls of a session total_requests never decreases and is the
\* number of sink calls made so far
C18_OptimisticAccounting ==
    /\ total_requests = sink_calls
    /\ [][ /\ total_requests' >= total_requests
           /\ total_requests' = sink_calls'
           /\ (sink_calls' # sink_calls) =>
                (/\ sink_calls' = sink_calls + 1
                 /\ total_requests' = total_requests + 1
                 /\ ~RefreshStep => remaining' = remaining - 1
                 /\ (RefreshStep /\ last_refresh'.resp.status # 200) =>
                        remaining' = remaining - 1 - Margin)
           /\ (IterationStep /\ last_iter'.outcome = "empty") =>
                UNCHANGED <<total_requests, sink_calls, remaining>>
           /\ (IterationStep /\ last_iter'.outcome = "suspend") =>
                (/\ UNCHANGED <<total_requests, sink_calls>>
                 /\ last_refresh'.resp.status # 200 =>
                        last_refresh'.after.remaining = remaining - Margin)
          ]_vars

\* the second paginating call of a session has handed its first page on
C18_Witness ==
    /\ Len(call_log) = 2
    /\ Len(sink_log) = 1
    /\ last_iter.outcome = "consume"
    /\ sink_calls = 2
    /\ total_requests = 2

\* a step that is an iteration which hands its page on
ConsumeStep == IterationStep /\ last_iter'.outcome = "consume"

\* C19 as stated: after a consumed page paginating calls
\* update_limit_variables exactly when more than one hour has passed since
\* last_stop_datetime
C19_RefreshAfterMoreThanAnHour ==
    [][ConsumeStep =>
          (RefreshStep <=> now' - last_stop_datetime > HourSeconds)]_vars

\* C19 amended: after a consumed page paginating calls
\* update_limit_variables exactly when one hour or more has passed since
\* last_stop_datetime, which is the time of construction or of the last
\* suspension; so at the end of every iteration that consumed a page the last
\* rate_limit request is less than one hour old
C19_RefreshAfterAnHour ==
    [][ConsumeStep =>
          (/\ RefreshStep <=> now' - last_stop_datetime >= HourSeconds
           /\ RefreshStep => (/\ last_refresh'.by = "paginating"
                              /\ last_refresh'.at = now')
           /\ last_stop_datetime' = last_stop_datetime
           /\ now' - last_refresh'.at < HourSeconds)]_vars

\* a page was consumed exactly one hour after construction and the limit
\* variables were refreshed
C19_Witness ==
    /\ last_iter.outcome = "consume"
    /\ limit_handler_counter = 0
    /\ now - last_stop_datetime = HourSeconds
    /\ last_refresh.by = "paginating"
    /\ last_refresh.at = now

\* C20: a refresh made because an hour had passed is not followed, with no
\* suspension in between, by another such refresh less than one hour later
C20_RefreshRearmsTimer ==
    [][(ConsumeStep /\ RefreshStep /\ last_refresh.by = "paginating") =>
          now' - last_refresh.at >= HourSeconds]_vars

\* paginating has returned after the empty page with every page of the
\* collection handed to the sink
Done ==
    /\ pc = "idle"
    /\ last_iter.outcome = "empty"
    /\ Len(sink_log) = CollectionPages
    /\ \A i \in 1..CollectionPages : sink_log[i].content = i

====
